---- MODULE Spec2Model ----
(***************************************************************************)
(* Model of the interview-coach backend (src/authentication): the resource *)
(* endpoints of main.py (sessions, media files, preferences), the identity *)
(* resolution of auth.py (register, oauth_callback), the bearer-token      *)
(* lifetime, the ownership guard of services/user_service.py and the       *)
(* storage gateway of services/storage_service.py.                         *)
(*                                                                         *)
(* Every request handler is a coroutine: it is cut into one action per     *)
(* awaited database or storage operation, and the requests in flight       *)
(* (the slots of req) interleave at those points.                          *)
(***************************************************************************)
EXTENDS Integers, Sequences, FiniteSets, TLC

VARIABLES
    users,        \* collection "users": sequence of UserDB documents, in insertion order
    prefs,        \* collection "user_preferences": sequence of UserPreferences documents
    sessions,     \* collection "user_sessions": sequence of UserSession documents
    mediaFiles,   \* collection "media_files": sequence of MediaFile documents
    blobs,        \* the storage backend: set of the paths (keys) that hold a blob
    req,          \* the requests in flight: slot -> handler position, inputs, locals
    last,         \* the request answered last: its inputs, locals and response
    nextId,       \* source of fresh ObjectId / uuid4 values
    started,      \* number of requests received so far
    now,          \* the clock, in seconds
    tokens,       \* the bearer tokens issued so far
    storage_type  \* StorageService.storage_type, fixed when the process starts

vars == <<users, prefs, sessions, mediaFiles, blobs, req, last, nextId, started, now, tokens,
          storage_type>>

----------------------------------------------------------------------------
(* Bounds *)

\* requests received in one behaviour of the resource endpoints
MaxOps == 3

\* requests received in one behaviour of register and the OAuth callback
MaxAuthOps == 2

\* requests received in one behaviour of login and token validation
MaxTokenOps == 3

\* seconds that pass in one behaviour of the session endpoints
MaxClock == 2

\* the request slots: two requests can be in flight at once
Reqs == {1, 2}

\* principals of the resource endpoints: the ids current_active_user resolves
Principals == {101, 102}


NoId == 0

----------------------------------------------------------------------------
(* Sequences as collections *)

Range(s) == {s[i] : i \in 1 .. Len(s)}

\* Document.find(pred).to_list(): the documents of s that are in Matching (the
\* documents satisfying pred), in natural order
FindAll(s, Matching) == SelectSeq(s, LAMBDA d : d \in Matching)

\* Document.find_one(pred): the first matching document, as a sequence of
\* length 0 (None) or 1
FindOne(s, Matching) ==
    LET m == FindAll(s, Matching) IN IF m = <<>> THEN <<>> ELSE <<m[1]>>

\* a delete that removes nothing
DeleteDoc_none(s, id) == s

\* Document.delete(): remove the document with this id
DeleteDoc(s, id) == FindAll(s, {d \in Range(s) : d.id # id})

\* Document.save(): replace the stored document that has doc's id (upsert)
SaveDoc(s, doc) ==
    IF \E i \in 1 .. Len(s) : s[i].id = doc.id
    THEN [i \in 1 .. Len(s) |-> IF s[i].id = doc.id THEN doc ELSE s[i]]
    ELSE Append(s, doc)

----------------------------------------------------------------------------
(* File names, the allow-list and storage paths (storage_service.py) *)

Lower(c) ==
    CASE c = "A" -> "a"
      [] c = "M" -> "m"
      [] c = "P" -> "p"
      [] c = "T" -> "t"
      [] c = "X" -> "x"
      [] OTHER -> c

LowerStr(s) == [i \in 1 .. Len(s) |-> Lower(s[i])]

EndsWith(s, suf) ==
    /\ Len(suf) <= Len(s)
    /\ SubSeq(s, Len(s) - Len(suf) + 1, Len(s)) = suf

allowed_extensions ==
    { <<".", "m", "p", "4">>, <<".", "m", "o", "v">>, <<".", "a", "v", "i">>,
      <<".", "m", "p", "3">>, <<".", "w", "a", "v">>, <<".", "m", "4", "a">>,
      <<".", "w", "e", "b", "m">> }

\* the allow-list matched anywhere in the name
validate_file_contains(filename) ==
    \E ext \in allowed_extensions :
        \E i \in 1 .. Len(filename) :
            EndsWith(SubSeq(LowerStr(filename), 1, i), ext)

validate_file(filename) ==
    \E ext \in allowed_extensions : EndsWith(LowerStr(filename), ext)

\* Path(filename).suffix: from the last dot on, "" without one or when the
\* name starts with its only dot or ends with a dot
Suffix(filename) ==
    LET dots == {i \in 2 .. Len(filename) : filename[i] = "."}
    IN  IF dots = {} \/ filename[Len(filename)] = "." THEN <<>>
        ELSE LET lastDot == CHOOSE i \in dots : \A j \in dots : j <= i
             IN  SubSeq(filename, lastDot, Len(filename))

max_file_size == 104857600

\* a size check that also refuses content of exactly the maximum
file_too_large_inclusive(content_length) == content_length >= max_file_size

\* _save_local / _save_s3: len(content) > self.max_file_size
file_too_large(content_length) == content_length > max_file_size

\* the STORAGE_TYPE the process was started with
StorageTypes == {"local", "s3"}

\* the uploads tried: file name, content length, content type
Uploads ==
    { [filename |-> <<"a", ".", "m", "p", "4">>, size |-> max_file_size,
       content_type |-> "video/mp4"],
      [filename |-> <<"A", ".", "M", "P", "4">>, size |-> max_file_size + 1,
       content_type |-> "audio/mpeg"],
      [filename |-> <<"a", ".", "t", "x", "t">>, size |-> 1, content_type |-> "text/plain"],
      [filename |-> <<"a", ".", "m", "p", "4", ".", "t", "x", "t">>, size |-> 1,
       content_type |-> "video/mp4"] }

\* save_file: the path generated for an upload, relative to the storage root;
\* root holds the directories put in front of users/...
GeneratedPath(user_id, session_id, file_id, filename) ==
    [root |-> <<>>, user |-> user_id, session |-> session_id, file |-> file_id,
     ext |-> Suffix(filename)]

\* _save_local writes to Path("storage") / file_path and returns str(full_path);
\* _save_s3 writes to the key file_path and returns it
StoredPath(st, file_path) ==
    IF st = "local" THEN [file_path EXCEPT !.root = <<"storage">> \o file_path.root]
    ELSE file_path

\* get_file_url: the base and the path formatted after it
get_file_url(st, file_path) ==
    IF st = "local" THEN [base |-> "/files/", path |-> file_path]
    ELSE [base |-> "https://bucket.s3.amazonaws.com/", path |-> file_path]

----------------------------------------------------------------------------
(* The ownership guard (user_service.py) *)

\* the collections user_owns_resource can look into; no code of the repository
\* inserts an LLMConversation
Collections(S, M) == [session |-> S, media |-> M, conversation |-> <<>>]

\* the guard with the owner left out of the query
user_owns_resource_any(user_id, resource_id, resource_type, db) ==
    IF resource_type \in {"session", "media", "conversation"}
    THEN FindOne(db[resource_type], {d \in Range(db[resource_type]) : d.id = resource_id}) # <<>>
    ELSE FALSE

user_owns_resource(user_id, resource_id, resource_type, db) ==
    IF resource_type \in {"session", "media", "conversation"}
    THEN FindOne(db[resource_type], {d \in Range(db[resource_type]) : d.id = resource_id /\ d.user_id = user_id}) # <<>>
    ELSE FALSE

\* Document.get(id)
GetDoc(s, id) == FindOne(s, {d \in Range(s) : d.id = id})

----------------------------------------------------------------------------
(* Requests and responses *)

NoResp == [status |-> 0, detail |-> "", data |-> <<>>]

Response(status, detail, data) == [status |-> status, detail |-> detail, data |-> data]

\* a handler without arguments, or without locals yet
None == [none |-> TRUE]

IdleReq == [op |-> "none", pc |-> "idle", user |-> NoId, args |-> None, local |-> None,
            resp |-> NoResp]

\* the slot a new request goes to: the lowest one no handler is running in
SlotFree(r) ==
    /\ req[r].pc = "idle"
    /\ \A q \in Reqs : q < r => req[q].pc # "idle"

\* a request of the resource endpoints can be received
Free(r) == SlotFree(r) /\ started < MaxOps

\* a register or OAuth callback request can be received
AuthFree(r) == SlotFree(r) /\ started < MaxAuthOps

Finished(op, u, args, local, resp) ==
    [op |-> op, pc |-> "done", user |-> u, args |-> args, local |-> local, resp |-> resp]

Running(op, pc, u, args, local) ==
    [op |-> op, pc |-> pc, user |-> u, args |-> args, local |-> local, resp |-> NoResp]

\* the resource type each guarded endpoint passes to user_owns_resource
ResourceType(op) == IF op = "get_session" THEN "session" ELSE "media"

\* the HTTPException(404) each guarded endpoint raises when the guard says no
NotFound(op) ==
    IF op = "get_session" THEN Response(404, "Session not found", <<>>)
    ELSE Response(404, "File not found", <<>>)

\* the first step answering 403 for a resource of another user
GuardStep_forbidden(op, u, id, db) ==
    IF user_owns_resource(u, id, ResourceType(op), db)
    THEN Running(op, "owned", u, [id |-> id], None)
    ELSE IF user_owns_resource_any(u, id, ResourceType(op), db)
    THEN Finished(op, u, [id |-> id], None, Response(403, "Forbidden", <<>>))
    ELSE Finished(op, u, [id |-> id], None, NotFound(op))

\* the first step of get_session, get_file and delete_file: the guard, and the
\* 404 when it fails
GuardStep(op, u, id, db) ==
    IF ~user_owns_resource(u, id, ResourceType(op), db)
    THEN Finished(op, u, [id |-> id], None, NotFound(op))
    ELSE Running(op, "owned", u, [id |-> id], None)

\* an exception no handler catches: the framework answers 500
Crash == Response(500, "Internal Server Error", <<>>)

Init ==
    /\ users = <<>>
    /\ prefs = <<>>
    /\ sessions = <<>>
    /\ mediaFiles = <<>>
    /\ blobs = {}
    /\ req = [r \in Reqs |-> IdleReq]
    /\ last = IdleReq
    /\ nextId = 1
    /\ started = 0
    /\ now = 0
    /\ tokens = {}
    /\ storage_type \in StorageTypes

\* the handler in slot r moves on: to its next await, or to its answer, which
\* frees the slot
Advance(r, request) ==
    IF request.pc = "done"
    THEN req' = [req EXCEPT ![r] = IdleReq] /\ last' = request
    ELSE req' = [req EXCEPT ![r] = request] /\ UNCHANGED last

\* a request arrives and its handler runs to its first await
Receive(r, request) == Advance(r, request) /\ started' = started + 1

\* a handler resumes and runs to its next await
Step(r, request) == Advance(r, request) /\ UNCHANGED started

----------------------------------------------------------------------------
(* Sessions (main.py, user_service.py) *)

\* POST /sessions: UserService.create_user_session
create_session(r, u) ==
    /\ Free(r)
    /\ LET session == [id |-> nextId, user_id |-> u, status |-> "active",
                       created_at |-> now]
       IN  /\ sessions' = Append(sessions, session)
           /\ Receive(r, Finished("create_session", u, None, None,
                                  Response(200, "", <<session>>)))
    /\ nextId' = nextId + 1
    /\ UNCHANGED <<users, prefs, mediaFiles, blobs, now, tokens, storage_type>>

\* GET /sessions/{session_id}: the guard
get_session_check(r, u, id) ==
    /\ Free(r)
    /\ Receive(r, GuardStep("get_session", u, id, Collections(sessions, mediaFiles)))
    /\ UNCHANGED <<users, prefs, sessions, mediaFiles, blobs, nextId, now, tokens,
                   storage_type>>

\* GET /sessions/{session_id}: UserService.get_session_by_id
get_session_fetch(r) ==
    /\ req[r].op = "get_session" /\ req[r].pc = "owned"
    /\ Step(r, Finished("get_session", req[r].user, req[r].args, None,
                        Response(200, "", GetDoc(sessions, req[r].args.id))))
    /\ UNCHANGED <<users, prefs, sessions, mediaFiles, blobs, nextId, now, tokens,
                   storage_type>>

----------------------------------------------------------------------------
(* Media files (main.py, storage_service.py) *)

\* POST /upload up to the return of storage_service.save_file: validate_file,
\* the generated path, the size check and the write. written says whether the
\* backend's write succeeds.
upload_file_save(r, u, file, session_id, written) ==
    /\ Free(r)
    /\ LET args == [file |-> file, session_id |-> session_id]
           path == StoredPath(storage_type,
                              GeneratedPath(u, session_id, nextId, file.filename))
           metadata == [file_path |-> path, file_size |-> file.size,
                        mime_type |-> file.content_type]
       IN  IF ~validate_file(file.filename)
           THEN \* HTTPException(400) raised inside the try, caught by except Exception
                /\ Receive(r, Finished("upload_file", u, args, None,
                                       Response(500, "Upload failed: 400: Invalid file type",
                                                <<>>)))
                /\ UNCHANGED <<blobs, nextId>>
           ELSE IF file_too_large(file.size)
           THEN \* ValueError from _save_local / _save_s3
                /\ Receive(r, Finished("upload_file", u, args, None,
                                       Response(400, "File too large", <<>>)))
                /\ nextId' = nextId + 1
                /\ UNCHANGED blobs
           ELSE IF ~written
           THEN \* OSError, or the Exception _save_s3 makes of a ClientError
                /\ Receive(r, Finished("upload_file", u, args, None,
                                       Response(500, "Upload failed", <<>>)))
                /\ nextId' = nextId + 1
                /\ UNCHANGED blobs
           ELSE /\ blobs' = blobs \cup {path}
                /\ nextId' = nextId + 1
                /\ Receive(r, Running("upload_file", "saved", u, args,
                                      [file_metadata |-> metadata]))
    /\ UNCHANGED <<users, prefs, sessions, mediaFiles, now, tokens, storage_type>>

\* POST /upload: MediaFile(...).insert() and the answer. inserted says whether
\* the database carries the insert out; when it raises, except Exception
\* answers 500 and the blob written before stays
upload_file_insert(r, inserted) ==
    /\ req[r].op = "upload_file" /\ req[r].pc = "saved"
    /\ LET md == req[r].local.file_metadata
           media_file ==
               [id |-> nextId, user_id |-> req[r].user,
                session_id |-> req[r].args.session_id,
                file_type |-> IF req[r].args.file.content_type \in {"video/mp4"}
                              THEN "video" ELSE "audio",
                file_path |-> md.file_path, file_size |-> md.file_size,
                mime_type |-> md.mime_type]
       IN  IF inserted
           THEN /\ mediaFiles' = Append(mediaFiles, media_file)
                /\ nextId' = nextId + 1
                /\ Step(r, Finished("upload_file", req[r].user, req[r].args, req[r].local,
                                    Response(200, "File uploaded successfully",
                                             <<[file_id |-> media_file.id,
                                                file_path |-> md.file_path]>>)))
           ELSE /\ UNCHANGED <<mediaFiles, nextId>>
                /\ Step(r, Finished("upload_file", req[r].user, req[r].args, req[r].local,
                                    Response(500, "Upload failed", <<>>)))
    /\ UNCHANGED <<users, prefs, sessions, blobs, now, tokens, storage_type>>

\* GET /files/{file_id}: the guard
get_file_check(r, u, id) ==
    /\ Free(r)
    /\ Receive(r, GuardStep("get_file", u, id, Collections(sessions, mediaFiles)))
    /\ UNCHANGED <<users, prefs, sessions, mediaFiles, blobs, nextId, now, tokens,
                   storage_type>>

\* GET /files/{file_id}: MediaFile.get, get_file_url and the answer
get_file_fetch(r) ==
    /\ req[r].op = "get_file" /\ req[r].pc = "owned"
    /\ LET media_file == GetDoc(mediaFiles, req[r].args.id)
       IN  IF media_file = <<>>
           THEN \* media_file.file_path on None: AttributeError
                Step(r, Finished("get_file", req[r].user, req[r].args,
                                 [media_file |-> media_file], Crash))
           ELSE Step(r, Finished("get_file", req[r].user, req[r].args,
                                 [media_file |-> media_file],
                                 Response(200, "",
                                     <<[file_id |-> media_file[1].id,
                                        file_url |-> get_file_url(storage_type,
                                                         media_file[1].file_path),
                                        file_type |-> media_file[1].file_type,
                                        file_size |-> media_file[1].file_size]>>)))
    /\ UNCHANGED <<users, prefs, sessions, mediaFiles, blobs, nextId, now, tokens,
                   storage_type>>

\* DELETE /files/{file_id}: the guard
delete_file_check(r, u, id) ==
    /\ Free(r)
    /\ Receive(r, GuardStep("delete_file", u, id, Collections(sessions, mediaFiles)))
    /\ UNCHANGED <<users, prefs, sessions, mediaFiles, blobs, nextId, now, tokens,
                   storage_type>>

\* DELETE /files/{file_id}: MediaFile.get
delete_file_fetch(r) ==
    /\ req[r].op = "delete_file" /\ req[r].pc = "owned"
    /\ LET media_file == GetDoc(mediaFiles, req[r].args.id)
       IN  IF media_file = <<>>
           THEN Step(r, Finished("delete_file", req[r].user, req[r].args,
                                 [media_file |-> media_file], Crash))
           ELSE Step(r, Running("delete_file", "fetched", req[r].user, req[r].args,
                                [media_file |-> media_file]))
    /\ UNCHANGED <<users, prefs, sessions, mediaFiles, blobs, nextId, now, tokens,
                   storage_type>>

\* StorageService.delete_file: os.remove / delete_object; removed says whether
\* the backend removes the blob (True) or raises OSError / ClientError (False)
StorageDelete(B, file_path, removed) ==
    [blobs |-> IF removed THEN B \ {file_path} ELSE B,
     result |-> removed]

\* DELETE /files/{file_id}: storage_service.delete_file(media_file.file_path),
\* whose result the handler drops
delete_file_blob(r, removed) ==
    /\ req[r].op = "delete_file" /\ req[r].pc = "fetched"
    /\ blobs' = StorageDelete(blobs, req[r].local.media_file[1].file_path, removed).blobs
    /\ Step(r, Running("delete_file", "blob_deleted", req[r].user, req[r].args,
                       req[r].local))
    /\ UNCHANGED <<users, prefs, sessions, mediaFiles, nextId, now, tokens, storage_type>>

\* DELETE /files/{file_id}: media_file.delete() and the answer. deleted says
\* whether the database carries the delete out; when it raises instead, nothing
\* in the handler catches it
delete_file_record(r, deleted) ==
    /\ req[r].op = "delete_file" /\ req[r].pc = "blob_deleted"
    /\ IF deleted
       THEN /\ mediaFiles' = DeleteDoc(mediaFiles, req[r].local.media_file[1].id)
            /\ Step(r, Finished("delete_file", req[r].user, req[r].args, req[r].local,
                                Response(200, "File deleted successfully", <<>>)))
       ELSE /\ UNCHANGED mediaFiles
            /\ Step(r, Finished("delete_file", req[r].user, req[r].args, req[r].local,
                                Crash))
    /\ UNCHANGED <<users, prefs, sessions, blobs, nextId, now, tokens, storage_type>>

\* the ids a caller can supply: every id issued so far (of a document that
\* exists or was deleted, of any collection) and one that is not issued yet
IdSpace == 1 .. nextId

\* the session ids an upload can name: none, or the id of a session (of any user)
SessionIds == {NoId} \cup {s.id : s \in Range(sessions)}

Next ==
    \/ \E r \in Reqs, u \in Principals : create_session(r, u)
    \/ \E r \in Reqs, u \in Principals, id \in IdSpace : get_session_check(r, u, id)
    \/ \E r \in Reqs : get_session_fetch(r)
    \/ \E r \in Reqs, u \in Principals, file \in Uploads, sid \in SessionIds,
          written \in BOOLEAN : upload_file_save(r, u, file, sid, written)
    \/ \E r \in Reqs, inserted \in BOOLEAN : upload_file_insert(r, inserted)
    \/ \E r \in Reqs, u \in Principals, id \in IdSpace : get_file_check(r, u, id)
    \/ \E r \in Reqs : get_file_fetch(r)
    \/ \E r \in Reqs, u \in Principals, id \in IdSpace : delete_file_check(r, u, id)
    \/ \E r \in Reqs : delete_file_fetch(r)
    \/ \E r \in Reqs, removed \in BOOLEAN : delete_file_blob(r, removed)
    \/ \E r \in Reqs, deleted \in BOOLEAN : delete_file_record(r, deleted)

Spec == Init /\ [][Next]_vars

----------------------------------------------------------------------------
(* Identity resolution: register (main.py) and UserManager (auth.py) *)

\* the addresses requests come with, as validated EmailStr values: the case of
\* the local part is kept as sent
Emails == { <<"a", "@", "x">>, <<"A", "@", "x">> }

\* the OAuth provider's account ids (the "sub" of the userinfo)
AccountIds == {"g1", "g2"}

\* the provider's profiles
Profiles == { [name |-> "n1", picture |-> "p1"], [name |-> "n2", picture |-> "p2"] }

\* google_id, full_name, avatar_url: Optional[str] = None
NoStr == ""

\* a user lookup that sees only the accounts that have a password
FindUserBy_password(U, field, value) ==
    FindOne(U, {d \in Range(U) : d[field] = value /\ d.hashed_password # ""})

\* UserDB.find_one(UserDB.<field> == value); Settings.email_collation is None
\* and no index is unique, so a lookup by email is an exact comparison
FindUserBy(U, field, value) ==
    FindOne(U, {d \in Range(U) : d[field] = value})

\* BaseUserManager.create: the document built from UserCreate
NewPasswordUser(id, email) ==
    [id |-> id, email |-> email, hashed_password |-> "hashed", google_id |-> NoStr,
     full_name |-> NoStr, avatar_url |-> NoStr, is_verified |-> FALSE]

\* a create path that does not record the account id
NewOAuthUser_unbound(id, email, account_id, profile) ==
    [id |-> id, email |-> email, hashed_password |-> "", google_id |-> "",
     full_name |-> profile.name, avatar_url |-> profile.picture, is_verified |-> TRUE]

\* oauth_callback: the document of the create path
NewOAuthUser(id, email, account_id, profile) ==
    [id |-> id, email |-> email, hashed_password |-> "", google_id |-> account_id,
     full_name |-> profile.name, avatar_url |-> profile.picture, is_verified |-> TRUE]

\* the link path without the binding
Linked_unbound(user, account_id, profile) ==
    [user EXCEPT !.avatar_url = profile.picture, !.full_name = profile.name]

\* oauth_callback: the assignments of the link path
Linked(user, account_id, profile) ==
    [user EXCEPT !.google_id = account_id, !.avatar_url = profile.picture,
                 !.full_name = profile.name]

\* UserPreferences(user_id=...): the defaults
DefaultPreferences(id, user_id) ==
    [id |-> id, user_id |-> user_id, preferred_duration |-> 30,
     difficulty_level |-> "medium"]

\* UserPreferences.find_one(UserPreferences.user_id == user_id)
FindPreferences(P, user_id) ==
    FindOne(P, {d \in Range(P) : d.user_id = user_id})

\* POST /auth/register, BaseUserManager.create: get_by_email, and
\* UserAlreadyExists answered 400
register_lookup(r, email) ==
    /\ AuthFree(r)
    /\ IF FindUserBy(users, "email", email) # <<>>
       THEN Receive(r, Finished("register", NoId, [email |-> email], None,
                                Response(400, "UserAlreadyExists", <<>>)))
       ELSE Receive(r, Running("register", "creating", NoId, [email |-> email], None))
    /\ UNCHANGED <<users, prefs, sessions, mediaFiles, blobs, nextId, now, tokens,
                   storage_type>>

\* BaseUserManager.create: user_db.create
register_create(r) ==
    /\ req[r].op = "register" /\ req[r].pc = "creating"
    /\ LET user == NewPasswordUser(nextId, req[r].args.email)
       IN  /\ users' = Append(users, user)
           /\ Step(r, Running("register", "prefs_find", NoId, req[r].args,
                              [user |-> user]))
    /\ nextId' = nextId + 1
    /\ UNCHANGED <<prefs, sessions, mediaFiles, blobs, now, tokens, storage_type>>

\* the answer of register and of google_callback for a resolved user
UserResolved(request, user) ==
    Finished(request.op, NoId, request.args, [user |-> user], Response(200, "", <<user>>))

\* create_user_preferences, as on_after_register and the create path of
\* oauth_callback call it: the find_one
create_user_preferences_find(r) ==
    /\ req[r].op \in {"register", "oauth_callback"} /\ req[r].pc = "prefs_find"
    /\ IF FindPreferences(prefs, req[r].local.user.id) # <<>>
       THEN Step(r, UserResolved(req[r], req[r].local.user))
       ELSE Step(r, [req[r] EXCEPT !.pc = "prefs_insert"])
    /\ UNCHANGED <<users, prefs, sessions, mediaFiles, blobs, nextId, now, tokens,
                   storage_type>>

\* create_user_preferences: the insert. inserted says whether it succeeds; a
\* failure is raised again, on_after_register swallows it, oauth_callback
\* lets it through to google_callback, which answers 400
create_user_preferences_insert(r, inserted) ==
    /\ req[r].op \in {"register", "oauth_callback"} /\ req[r].pc = "prefs_insert"
    /\ IF inserted
       THEN /\ prefs' = Append(prefs, DefaultPreferences(nextId, req[r].local.user.id))
            /\ nextId' = nextId + 1
            /\ Step(r, UserResolved(req[r], req[r].local.user))
       ELSE /\ UNCHANGED <<prefs, nextId>>
            /\ IF req[r].op = "register"
               THEN Step(r, UserResolved(req[r], req[r].local.user))
               ELSE Step(r, Finished("oauth_callback", NoId, req[r].args, req[r].local,
                                     Response(400, "preferences", <<>>)))
    /\ UNCHANGED <<users, sessions, mediaFiles, blobs, now, tokens, storage_type>>

\* oauth_callback: the lookup by google_id
oauth_callback_by_google_id(r, account_id, email, profile) ==
    /\ AuthFree(r)
    /\ LET args == [account_id |-> account_id, email |-> email, profile |-> profile]
           user == FindUserBy(users, "google_id", account_id)
       IN  IF user # <<>>
           THEN Receive(r, UserResolved([op |-> "oauth_callback", args |-> args], user[1]))
           ELSE Receive(r, Running("oauth_callback", "by_email", NoId, args, None))
    /\ UNCHANGED <<users, prefs, sessions, mediaFiles, blobs, nextId, now, tokens,
                   storage_type>>

\* oauth_callback: the lookup by email, and the assignments of the link path
oauth_callback_by_email(r) ==
    /\ req[r].op = "oauth_callback" /\ req[r].pc = "by_email"
    /\ LET user == FindUserBy(users, "email", req[r].args.email)
       IN  IF user # <<>>
           THEN Step(r, Running("oauth_callback", "linking", NoId, req[r].args,
                                [user |-> Linked(user[1], req[r].args.account_id,
                                                 req[r].args.profile)]))
           ELSE Step(r, Running("oauth_callback", "creating", NoId, req[r].args, None))
    /\ UNCHANGED <<users, prefs, sessions, mediaFiles, blobs, nextId, now, tokens,
                   storage_type>>

\* oauth_callback: user.save() of the link path
oauth_callback_link(r) ==
    /\ req[r].op = "oauth_callback" /\ req[r].pc = "linking"
    /\ users' = SaveDoc(users, req[r].local.user)
    /\ Step(r, UserResolved(req[r], req[r].local.user))
    /\ UNCHANGED <<prefs, sessions, mediaFiles, blobs, nextId, now, tokens, storage_type>>

\* oauth_callback: user.insert() of the create path
oauth_callback_create(r) ==
    /\ req[r].op = "oauth_callback" /\ req[r].pc = "creating"
    /\ LET user == NewOAuthUser(nextId, req[r].args.email, req[r].args.account_id,
                                req[r].args.profile)
       IN  /\ users' = Append(users, user)
           /\ Step(r, Running("oauth_callback", "prefs_find", NoId, req[r].args,
                              [user |-> user]))
    /\ nextId' = nextId + 1
    /\ UNCHANGED <<prefs, sessions, mediaFiles, blobs, now, tokens, storage_type>>

\* oauth_callback run from its first line to its last with no other request in
\* between, on users U and preferences P, fresh ids taken from id on: the
\* collections it leaves, the user it resolved, and whether it raised
oauth_callback_run(U, P, id, account_id, email, profile, inserted) ==
    LET byGoogleId == FindUserBy(U, "google_id", account_id)
        byEmail == FindUserBy(U, "email", email)
        linked == Linked(byEmail[1], account_id, profile)
        created == NewOAuthUser(id, email, account_id, profile)
    IN  IF byGoogleId # <<>>
        THEN [users |-> U, prefs |-> P, resolved |-> byGoogleId[1], raised |-> FALSE]
        ELSE IF byEmail # <<>>
        THEN [users |-> SaveDoc(U, linked), prefs |-> P, resolved |-> linked,
              raised |-> FALSE]
        ELSE IF FindPreferences(P, id) # <<>>
        THEN [users |-> Append(U, created), prefs |-> P, resolved |-> created,
              raised |-> FALSE]
        ELSE IF inserted
        THEN [users |-> Append(U, created),
              prefs |-> Append(P, DefaultPreferences(id + 1, id)),
              resolved |-> created, raised |-> FALSE]
        ELSE [users |-> Append(U, created), prefs |-> P, resolved |-> created,
              raised |-> TRUE]

\* the bodies PATCH /users/me is tried with (UserUpdate): a new password, a new
\* name, a new address
UserUpdates ==
    { [password |-> "p2"], [full_name |-> "n3"], [email |-> <<"A", "@", "x">>] }

\* BaseUserManager._update and BeanieUserDatabase.update: the fields set on the
\* document; a password is stored as its hash, a new address unverifies
UpdatedUser(user, update) ==
    [user EXCEPT
        !.hashed_password = IF "password" \in DOMAIN update THEN "hashed2" ELSE @,
        !.full_name = IF "full_name" \in DOMAIN update THEN update.full_name ELSE @,
        !.email = IF "email" \in DOMAIN update THEN update.email ELSE @,
        !.is_verified = IF "email" \in DOMAIN update /\ update.email # user.email
                        THEN FALSE ELSE @]

\* PATCH /users/me: current_active_user has loaded the caller's document;
\* user_manager.update up to its first database call
update_current_user_load(r, user, update) ==
    /\ AuthFree(r)
    /\ IF "email" \in DOMAIN update /\ update.email # user.email
       THEN Receive(r, Running("update_current_user", "by_email", NoId,
                               [update |-> update], [user |-> user]))
       ELSE Receive(r, Running("update_current_user", "saving", NoId,
                               [update |-> update], [user |-> UpdatedUser(user, update)]))
    /\ UNCHANGED <<users, prefs, sessions, mediaFiles, blobs, nextId, now, tokens,
                   storage_type>>

\* BaseUserManager._update: get_by_email for a new address; UserAlreadyExists
\* is answered 400
update_current_user_by_email(r) ==
    /\ req[r].op = "update_current_user" /\ req[r].pc = "by_email"
    /\ IF FindUserBy(users, "email", req[r].args.update.email) # <<>>
       THEN Step(r, Finished("update_current_user", NoId, req[r].args, req[r].local,
                             Response(400, "UserAlreadyExists", <<>>)))
       ELSE Step(r, Running("update_current_user", "saving", NoId, req[r].args,
                            [user |-> UpdatedUser(req[r].local.user, req[r].args.update)]))
    /\ UNCHANGED <<users, prefs, sessions, mediaFiles, blobs, nextId, now, tokens,
                   storage_type>>

\* BeanieUserDatabase.update: user.save() of the document as loaded and changed
update_current_user_save(r) ==
    /\ req[r].op = "update_current_user" /\ req[r].pc = "saving"
    /\ users' = SaveDoc(users, req[r].local.user)
    /\ Step(r, UserResolved(req[r], req[r].local.user))
    /\ UNCHANGED <<prefs, sessions, mediaFiles, blobs, nextId, now, tokens, storage_type>>

AuthNext ==
    \/ \E r \in Reqs, email \in Emails : register_lookup(r, email)
    \/ \E r \in Reqs : register_create(r)
    \/ \E r \in Reqs : create_user_preferences_find(r)
    \/ \E r \in Reqs, inserted \in BOOLEAN : create_user_preferences_insert(r, inserted)
    \/ \E r \in Reqs, account_id \in AccountIds, email \in Emails, profile \in Profiles :
          oauth_callback_by_google_id(r, account_id, email, profile)
    \/ \E r \in Reqs : oauth_callback_by_email(r)
    \/ \E r \in Reqs : oauth_callback_link(r)
    \/ \E r \in Reqs : oauth_callback_create(r)
    \/ \E r \in Reqs, update \in UserUpdates :
          \E i \in 1 .. Len(users) : update_current_user_load(r, users[i], update)
    \/ \E r \in Reqs : update_current_user_by_email(r)
    \/ \E r \in Reqs : update_current_user_save(r)

\* the storage backend plays no part in identity resolution
AuthInit == Init /\ storage_type = "local"

AuthSpec == AuthInit /\ [][AuthNext]_vars

----------------------------------------------------------------------------
(* Preferences (main.py, user_service.py, auth.py) *)

\* the bodies PUT /preferences is tried with (preferences_data: dict)
PreferenceUpdates ==
    { [difficulty_level |-> "hard"],
      [difficulty_level |-> "easy", unknown_field |-> "x"],
      [preferred_duration |-> 45],
      [user_id |-> 102] }

\* an update that resets the fields it is not given
ApplyUpdate_replace(preferences, data) ==
    [k \in DOMAIN preferences |->
        IF k \in DOMAIN data THEN data[k]
        ELSE DefaultPreferences(preferences.id, preferences.user_id)[k]]

\* update_user_preferences, record present: setattr for every key the
\* document has
ApplyUpdate(preferences, data) ==
    [k \in DOMAIN preferences |->
        IF k \in DOMAIN data THEN data[k] ELSE preferences[k]]

\* update_user_preferences, record absent: UserPreferences(user_id=user_id,
\* **preferences_data); keys that are no field are dropped. Not defined for
\* data with a user_id key, where the call has two values for one keyword
NewPreferences(id, user_id, data) == ApplyUpdate(DefaultPreferences(id, user_id), data)

\* GET /preferences: the find_one of UserService.get_user_preferences
get_user_preferences_find(r, u) ==
    /\ Free(r)
    /\ LET preferences == FindPreferences(prefs, u)
       IN  IF preferences # <<>>
           THEN Receive(r, Finished("get_user_preferences", u, None, None,
                                    Response(200, "", preferences)))
           ELSE Receive(r, Running("get_user_preferences", "inserting", u, None, None))
    /\ UNCHANGED <<users, prefs, sessions, mediaFiles, blobs, nextId, now, tokens,
                   storage_type>>

\* GET /preferences: the insert of the defaults
get_user_preferences_insert(r) ==
    /\ req[r].op = "get_user_preferences" /\ req[r].pc = "inserting"
    /\ LET preferences == DefaultPreferences(nextId, req[r].user)
       IN  /\ prefs' = Append(prefs, preferences)
           /\ Step(r, Finished("get_user_preferences", req[r].user, None, None,
                               Response(200, "", <<preferences>>)))
    /\ nextId' = nextId + 1
    /\ UNCHANGED <<users, sessions, mediaFiles, blobs, now, tokens, storage_type>>

\* PUT /preferences: the find_one of UserService.update_user_preferences, and
\* the document to insert or to save
update_user_preferences_find(r, u, data) ==
    /\ Free(r)
    /\ LET preferences == FindPreferences(prefs, u)
           args == [preferences_data |-> data]
       IN  IF preferences # <<>>
           THEN Receive(r, Running("update_user_preferences", "saving", u, args,
                                   [preferences |-> ApplyUpdate(preferences[1], data)]))
           ELSE IF "user_id" \in DOMAIN data
           THEN \* TypeError: multiple values for keyword argument 'user_id'
                Receive(r, Finished("update_user_preferences", u, args, None, Crash))
           ELSE Receive(r, Running("update_user_preferences", "inserting", u, args, None))
    /\ UNCHANGED <<users, prefs, sessions, mediaFiles, blobs, nextId, now, tokens,
                   storage_type>>

\* PUT /preferences: preferences.insert()
update_user_preferences_insert(r) ==
    /\ req[r].op = "update_user_preferences" /\ req[r].pc = "inserting"
    /\ LET preferences == NewPreferences(nextId, req[r].user, req[r].args.preferences_data)
       IN  /\ prefs' = Append(prefs, preferences)
           /\ Step(r, Finished("update_user_preferences", req[r].user, req[r].args,
                               [preferences |-> preferences],
                               Response(200, "", <<preferences>>)))
    /\ nextId' = nextId + 1
    /\ UNCHANGED <<users, sessions, mediaFiles, blobs, now, tokens, storage_type>>

\* PUT /preferences: preferences.save()
update_user_preferences_save(r) ==
    /\ req[r].op = "update_user_preferences" /\ req[r].pc = "saving"
    /\ prefs' = SaveDoc(prefs, req[r].local.preferences)
    /\ Step(r, Finished("update_user_preferences", req[r].user, req[r].args, req[r].local,
                        Response(200, "", <<req[r].local.preferences>>)))
    /\ UNCHANGED <<users, sessions, mediaFiles, blobs, nextId, now, tokens, storage_type>>

\* update_user_preferences run from its first line to its last with no other
\* request in between, on preferences P, a fresh id being id: the collection
\* it leaves, the document it returns, and whether it raised
update_user_preferences_run(P, id, user_id, data) ==
    LET preferences == FindPreferences(P, user_id)
    IN  IF preferences # <<>>
        THEN [prefs |-> SaveDoc(P, ApplyUpdate(preferences[1], data)),
              result |-> <<ApplyUpdate(preferences[1], data)>>, raised |-> FALSE]
        ELSE IF "user_id" \in DOMAIN data
        THEN [prefs |-> P, result |-> <<>>, raised |-> TRUE]
        ELSE [prefs |-> Append(P, NewPreferences(id, user_id, data)),
              result |-> <<NewPreferences(id, user_id, data)>>, raised |-> FALSE]

\* on_after_register(user), called by BaseUserManager.create for the user it
\* has inserted: enters create_user_preferences
on_after_register(r, u) ==
    /\ Free(r)
    /\ Receive(r, Running("register", "prefs_find", NoId, None, [user |-> [id |-> u]]))
    /\ UNCHANGED <<users, prefs, sessions, mediaFiles, blobs, nextId, now, tokens,
                   storage_type>>

PrefsNext ==
    \/ \E r \in Reqs, u \in Principals : get_user_preferences_find(r, u)
    \/ \E r \in Reqs : get_user_preferences_insert(r)
    \/ \E r \in Reqs, u \in Principals, data \in PreferenceUpdates :
          update_user_preferences_find(r, u, data)
    \/ \E r \in Reqs : update_user_preferences_insert(r)
    \/ \E r \in Reqs : update_user_preferences_save(r)
    \/ \E r \in Reqs, u \in Principals : on_after_register(r, u)
    \/ \E r \in Reqs : create_user_preferences_find(r)
    \/ \E r \in Reqs, inserted \in BOOLEAN : create_user_preferences_insert(r, inserted)

PrefsSpec == AuthInit /\ [][PrefsNext]_vars

----------------------------------------------------------------------------
(* Bearer tokens (auth.py: get_jwt_strategy, auth_backend, current_active_user) *)

lifetime_seconds == 3600

\* the signature made with SECRET
Signed == "SECRET"

\* the seconds that pass between one request and the next
Delays == {1, lifetime_seconds - 1, lifetime_seconds + 1}

\* JWTStrategy.write_token at time t
write_token(user_id, t) == [sub |-> user_id, exp |-> t + lifetime_seconds, sig |-> Signed]

\* validation that does not look at the expiry
read_token_unexpiring(token, t) ==
    IF token.sig = Signed THEN token.sub ELSE NoId

\* JWTStrategy.read_token at time t: the user id, or none for a bad signature
\* or a token that has expired
read_token(token, t) ==
    IF token.sig = Signed /\ token.exp > t THEN token.sub ELSE NoId

\* the tokens a caller can present: the issued ones, and each of them
\* rewritten to name another user, which breaks the signature
Presentable ==
    tokens \cup { [sub |-> u, exp |-> k.exp, sig |-> "forged"] :
                    k \in tokens, u \in Principals }

\* POST /auth/jwt/login with the credentials of user u, d seconds after the
\* previous request
login(u, d) ==
    /\ started < MaxTokenOps
    /\ now' = now + d
    /\ tokens' = tokens \cup {write_token(u, now')}
    /\ last' = Finished("login", NoId, [user |-> u, at |-> now'], None,
                        Response(200, "", <<write_token(u, now')>>))
    /\ started' = started + 1
    /\ UNCHANGED <<users, prefs, sessions, mediaFiles, blobs, req, nextId, storage_type>>

\* GET /users/me with a bearer token, d seconds after the previous request:
\* current_active_user, and 401 when the token resolves to no user
get_current_user(token, d) ==
    /\ started < MaxTokenOps
    /\ now' = now + d
    /\ LET user_id == read_token(token, now')
           args == [token |-> token, at |-> now']
       IN  last' = IF user_id = NoId
                   THEN Finished("get_current_user", NoId, args, None,
                                 Response(401, "Unauthorized", <<>>))
                   ELSE Finished("get_current_user", user_id, args, None,
                                 Response(200, "", <<[id |-> user_id]>>))
    /\ started' = started + 1
    /\ UNCHANGED <<users, prefs, sessions, mediaFiles, blobs, req, nextId, tokens,
                   storage_type>>

TokenNext ==
    \/ \E u \in Principals, d \in Delays : login(u, d)
    \/ \E token \in Presentable, d \in Delays : get_current_user(token, d)

TokenSpec == AuthInit /\ [][TokenNext]_vars

----------------------------------------------------------------------------
(* The wire surface: bearer authentication of the endpoints and the static *)
(* mount (main.py, auth.py)                                                 *)

\* no Authorization header, and a header whose token does not decode
NoToken == [sub |-> NoId, exp |-> 0, sig |-> "none"]

Malformed == [sub |-> NoId, exp |-> 0, sig |-> "malformed"]

\* what a request can carry as its bearer token
Bearers == Presentable \cup {NoToken, Malformed}

\* Depends(current_active_user): the principal the token of the request
\* resolves to at the time of the request, none (NoId) making the request end
\* in 401 before the handler is entered
current_active_user(token) == read_token(token, now)

\* the endpoints declared with Depends(current_active_user)
ProtectedOps ==
    {"create_session", "get_user_sessions", "get_session", "upload_file", "get_user_files",
     "get_file", "delete_file", "get_user_preferences", "update_user_preferences"}

\* the 401 of the dependency: the handler is not entered
Unauthorized(r, op) ==
    /\ Free(r)
    /\ Receive(r, Finished(op, NoId, None, None, Response(401, "Unauthorized", <<>>)))
    /\ UNCHANGED <<users, prefs, sessions, mediaFiles, blobs, nextId, now, tokens,
                   storage_type>>

\* GET /sessions: UserService.get_user_sessions, find(user_id == u).to_list()
get_user_sessions(r, u) ==
    /\ Free(r)
    /\ Receive(r, Finished("get_user_sessions", u, None, None,
                           Response(200, "",
                                    FindAll(sessions, {d \in Range(sessions) : d.user_id = u}))))
    /\ UNCHANGED <<users, prefs, sessions, mediaFiles, blobs, nextId, now, tokens,
                   storage_type>>

\* GET /files: UserService.get_user_media_files; a session_id that is None
\* (NoId) does not filter
get_user_files(r, u, session_id) ==
    /\ Free(r)
    /\ Receive(r, Finished("get_user_files", u, [session_id |-> session_id], None,
                           Response(200, "",
                                    FindAll(mediaFiles,
                                            {d \in Range(mediaFiles) :
                                                /\ d.user_id = u
                                                /\ session_id # NoId
                                                      => d.session_id = session_id}))))
    /\ UNCHANGED <<users, prefs, sessions, mediaFiles, blobs, nextId, now, tokens,
                   storage_type>>

\* the paths asked of the static mount: those of the stored blobs, relative to
\* the directory, and one that names nothing
StaticPaths ==
    { [p EXCEPT !.root = <<>>] : p \in blobs }
      \cup { [root |-> <<>>, user |-> NoId, session |-> NoId, file |-> NoId, ext |-> <<>>] }

\* StaticFiles(directory="storage"): the file a path under the mount names
MountedPath(path) == [path EXCEPT !.root = <<"storage">> \o path.root]

\* GET /files/{path} answered by app.mount("/files", StaticFiles(directory=
\* "storage")): the file storage/<path> when there is one. The mount declares
\* no dependency: the request's Authorization header is not looked at.
static_files(r, path) ==
    /\ Free(r)
    /\ LET full_path == MountedPath(path)
       IN  IF storage_type = "local" /\ full_path \in blobs
           THEN Receive(r, Finished("static_files", NoId, [path |-> path], None,
                                    Response(200, "", <<[content_of |-> full_path]>>)))
           ELSE Receive(r, Finished("static_files", NoId, [path |-> path], None,
                                    Response(404, "Not Found", <<>>)))
    /\ UNCHANGED <<users, prefs, sessions, mediaFiles, blobs, nextId, now, tokens,
                   storage_type>>

WireNext ==
    \/ \E u \in Principals, d \in Delays : login(u, d)
    \/ \E r \in Reqs, token \in Bearers, op \in ProtectedOps :
          current_active_user(token) = NoId /\ Unauthorized(r, op)
    \/ \E r \in Reqs, token \in Bearers :
          /\ current_active_user(token) # NoId
          /\ \/ create_session(r, current_active_user(token))
             \/ get_user_sessions(r, current_active_user(token))
             \/ \E id \in IdSpace : get_session_check(r, current_active_user(token), id)
             \/ \E file \in Uploads, sid \in SessionIds, written \in BOOLEAN :
                   upload_file_save(r, current_active_user(token), file, sid, written)
             \/ \E sid \in SessionIds : get_user_files(r, current_active_user(token), sid)
             \/ \E id \in IdSpace : get_file_check(r, current_active_user(token), id)
             \/ \E id \in IdSpace : delete_file_check(r, current_active_user(token), id)
             \/ get_user_preferences_find(r, current_active_user(token))
             \/ \E data \in PreferenceUpdates :
                   update_user_preferences_find(r, current_active_user(token), data)
    \/ \E r \in Reqs : get_session_fetch(r)
    \/ \E r \in Reqs, inserted \in BOOLEAN : upload_file_insert(r, inserted)
    \/ \E r \in Reqs : get_file_fetch(r)
    \/ \E r \in Reqs : delete_file_fetch(r)
    \/ \E r \in Reqs, removed \in BOOLEAN : delete_file_blob(r, removed)
    \/ \E r \in Reqs, deleted \in BOOLEAN : delete_file_record(r, deleted)
    \/ \E r \in Reqs : get_user_preferences_insert(r)
    \/ \E r \in Reqs : update_user_preferences_insert(r)
    \/ \E r \in Reqs : update_user_preferences_save(r)
    \/ \E r \in Reqs, path \in StaticPaths : static_files(r, path)

\* the static mount serves the directory of the local backend
WireInit == Init /\ storage_type = "local"

WireSpec == WireInit /\ [][WireNext]_vars

----------------------------------------------------------------------------
(* Creating and listing sessions over time (main.py, user_service.py) *)

\* a second passes: datetime.utcnow, the default of created_at, moves on
tick ==
    /\ now < MaxClock
    /\ now' = now + 1
    /\ UNCHANGED <<users, prefs, sessions, mediaFiles, blobs, req, last, nextId, started,
                   tokens, storage_type>>

SessionNext ==
    \/ \E r \in Reqs, u \in Principals : create_session(r, u)
    \/ \E r \in Reqs, u \in Principals : get_user_sessions(r, u)
    \/ \E r \in Reqs, u \in Principals, id \in IdSpace : get_session_check(r, u, id)
    \/ \E r \in Reqs : get_session_fetch(r)
    \/ tick

SessionSpec == WireInit /\ [][SessionNext]_vars

----------------------------------------------------------------------------
(* Properties of the resource endpoints, checked under Spec *)

GuardedOps == {"get_session", "get_file", "delete_file"}

\* the collection a guarded endpoint reads
CollectionOf(op) == Collections(sessions, mediaFiles)[ResourceType(op)]

\* resource id of the kind op handles exists and belongs to u
Owns(op, u, id) == \E d \in Range(CollectionOf(op)) : d.id = id /\ d.user_id = u

\* resource id of the kind op handles exists and belongs to somebody else
OthersResource(op, u, id) == \E d \in Range(CollectionOf(op)) : d.id = id /\ d.user_id # u

\* this step receives a request and answers it at once
AnsweredAtOnce == started' # started /\ req' = req

\* this step receives a request whose handler then waits in slot r
TakenUp(r) == started' # started /\ req'[r] # req[r]

\* the handler in slot r takes this step
Resumes(r) == started' = started /\ req'[r] # req[r]

C1_State ==
    /\ \A r \in Reqs :
          /\ (req[r].op \in GuardedOps /\ req[r].pc = "owned")
                => ~OthersResource(req[r].op, req[r].user, req[r].args.id)
          /\ (req[r].op = "delete_file" /\ req[r].pc \in {"fetched", "blob_deleted"})
                => /\ req[r].local.media_file[1].id = req[r].args.id
                   /\ req[r].local.media_file[1].user_id = req[r].user
    /\ (last.op = "get_session" /\ last.resp.status = 200)
          => \A d \in Range(last.resp.data) : d.id = last.args.id /\ d.user_id = last.user
    /\ (last.op \in {"get_file", "delete_file"} /\ last.resp.status = 200)
          => /\ last.local.media_file[1].id = last.args.id
             /\ last.local.media_file[1].user_id = last.user
    /\ (last.op = "get_file" /\ last.resp.status = 200)
          => last.resp.data[1].file_id = last.args.id

C1_Step ==
    \* the guard decides, when the request arrives: granted iff the resource
    \* exists, is of the kind and is the caller's
    /\ (AnsweredAtOnce /\ last'.op \in GuardedOps)
          => /\ ~Owns(last'.op, last'.user, last'.args.id)
             /\ last'.resp.status = 404
             /\ UNCHANGED <<sessions, mediaFiles, blobs>>
    /\ \A r \in Reqs :
          (TakenUp(r) /\ req'[r].op \in GuardedOps)
            => /\ Owns(req'[r].op, req'[r].user, req'[r].args.id)
               /\ req'[r].pc = "owned"
               /\ UNCHANGED <<sessions, mediaFiles, blobs>>
    \* a record or a blob goes only in a step of a delete_file of its owner
    \* that has passed the guard
    /\ \A d \in Range(mediaFiles) \ Range(mediaFiles') :
          \E r \in Reqs : /\ Resumes(r)
                          /\ req[r].op = "delete_file" /\ req[r].pc = "blob_deleted"
                          /\ req[r].user = d.user_id /\ req[r].args.id = d.id
    /\ \A p \in blobs \ blobs' :
          \E r \in Reqs : /\ Resumes(r)
                          /\ req[r].op = "delete_file" /\ req[r].pc = "fetched"
                          /\ req[r].user = p.user
                          /\ req[r].local.media_file[1].file_path = p

\* C1: get_session, get_file and delete_file return or change the data of a
\* resource only if it exists, is of the requested kind and belongs to the
\* caller; the guard, evaluated first, grants exactly those requests.
C1_OwnershipGuard == []C1_State /\ [][C1_Step]_vars

\* a file was read by its owner and a file was deleted by its owner
C1_Witness ==
    /\ last.op = "delete_file" /\ last.resp.status = 200
    /\ last.local.media_file[1].user_id = last.user
    /\ \E r \in Reqs : req[r].op = "get_file" /\ req[r].pc = "owned"

\* the guarded endpoints' first step on (sessions S, media files M)
GuardOutcome(op, u, id, S, M) == GuardStep(op, u, id, Collections(S, M))

C2_State ==
    \A op \in GuardedOps, u \in Principals :
        \A d \in Range(CollectionOf(op)) :
            d.user_id # u
              => LET with == GuardOutcome(op, u, d.id, sessions, mediaFiles)
                     without == GuardOutcome(op, u, d.id, DeleteDoc(sessions, d.id),
                                             DeleteDoc(mediaFiles, d.id))
                 IN  /\ with = without
                     /\ with.pc = "done"
                     /\ with.resp = NotFound(op)
                     /\ ~user_owns_resource(u, d.id, ResourceType(op),
                                            Collections(sessions, mediaFiles))

C2_Step ==
    (AnsweredAtOnce /\ last'.op \in GuardedOps)
      => /\ last'.resp = NotFound(last'.op)
         /\ UNCHANGED <<users, prefs, sessions, mediaFiles, blobs, nextId>>

\* C2: to a caller, a guarded request on an id that exists but is another
\* user's ends as it would if the id did not exist: the same 404 answer, no
\* state changed.
C2_AntiEnumeration == []C2_State /\ [][C2_Step]_vars

\* a request on another user's file was answered 404
C2_Witness ==
    /\ last.op \in {"get_file", "delete_file"}
    /\ last.resp = NotFound(last.op)
    /\ OthersResource(last.op, last.user, last.args.id)

C3_State ==
    \A r \in Reqs :
        req[r].op = "delete_file" /\ req[r].pc # "idle"
          => ~OthersResource("delete_file", req[r].user, req[r].args.id)

C3_Step ==
    (AnsweredAtOnce /\ last'.op = "delete_file"
       /\ OthersResource("delete_file", last'.user, last'.args.id))
      => /\ last'.resp = NotFound("delete_file")
         /\ mediaFiles' = mediaFiles
         /\ blobs' = blobs

\* C3: delete_file by a principal who does not own the file answers 404 and
\* leaves the blob and the MediaFile record as they were; no such request
\* gets past the guard.
C3_NonOwnerDelete ==
    /\ []C3_State
    /\ [][C3_Step]_vars
    /\ [][\A r \in Reqs : (TakenUp(r) /\ req'[r].op = "delete_file")
                              => Owns("delete_file", req'[r].user, req'[r].args.id)]_vars

\* a non-owner's delete_file was answered 404; record and blob are there
C3_Witness ==
    /\ last.op = "delete_file" /\ last.resp.status = 404
    /\ \E d \in Range(mediaFiles) :
          d.id = last.args.id /\ d.user_id # last.user /\ d.file_path \in blobs

\* C4: when delete_file reports success, neither the MediaFile record nor the
\* blob exists, also when the storage backend's delete reported failure.
C4_DeleteRemovesBoth ==
    (last.op = "delete_file" /\ last.resp.status = 200)
      => /\ GetDoc(mediaFiles, last.args.id) = <<>>
         /\ last.local.media_file[1].file_path \notin blobs

\* the lowercased name ends in none of the seven extensions
C10_Unsupported(filename) ==
    ~\E ext \in { <<".", "m", "p", "4">>, <<".", "m", "o", "v">>, <<".", "a", "v", "i">>,
                   <<".", "m", "p", "3">>, <<".", "w", "a", "v">>, <<".", "m", "4", "a">>,
                   <<".", "w", "e", "b", "m">> } :
        /\ Len(ext) <= Len(filename)
        /\ \A i \in 1 .. Len(ext) :
              Lower(filename[Len(filename) - Len(ext) + i]) = ext[i]

C10_Step ==
    /\ (AnsweredAtOnce /\ last'.op = "upload_file")
          => (C10_Unsupported(last'.args.file.filename)
                => /\ last'.resp.status # 200
                   /\ blobs' = blobs /\ mediaFiles' = mediaFiles)
    /\ \A r \in Reqs :
          (TakenUp(r) /\ req'[r].op = "upload_file")
            => ~C10_Unsupported(req'[r].args.file.filename)

\* C10: an upload whose lowercased name ends in none of the allowed
\* extensions is rejected in the step that receives it: no blob is written,
\* no MediaFile record is inserted, and the request takes no later step.
C10_RejectedBeforeWrite ==
    /\ [](\A r \in Reqs : req[r].op = "upload_file"
                             => ~C10_Unsupported(req[r].args.file.filename))
    /\ [][C10_Step]_vars

\* a .txt upload was rejected while an accepted upload's blob is stored
C10_Witness ==
    /\ last.op = "upload_file"
    /\ last.args.file.filename = <<"a", ".", "t", "x", "t">>
    /\ last.resp.status # 200
    /\ blobs # {}
    /\ \A p \in blobs : p.ext # <<".", "t", "x", "t">>

C12_Step ==
    /\ (AnsweredAtOnce /\ last'.op = "upload_file"
          /\ ~C10_Unsupported(last'.args.file.filename))
          => /\ last'.args.file.size > max_file_size
                   => /\ last'.resp = Response(400, "File too large", <<>>)
                      /\ blobs' = blobs /\ mediaFiles' = mediaFiles
             /\ last'.args.file.size <= max_file_size
                   => /\ last'.resp.status = 500
                      /\ blobs' = blobs /\ mediaFiles' = mediaFiles
    /\ \A r \in Reqs :
          (TakenUp(r) /\ req'[r].op = "upload_file")
            => /\ req'[r].args.file.size <= max_file_size
               /\ blobs' = blobs \cup {req'[r].local.file_metadata.file_path}

\* C12: on either backend an upload with an allowed name and more than
\* max_file_size bytes is answered 400 "File too large" in the step that
\* receives it, with no blob written and no MediaFile inserted; an upload of
\* max_file_size bytes or fewer is never refused for its size (it is stored
\* unless the backend's write fails), and no record or request in flight
\* carries a larger size.
C12_SizeLimit ==
    /\ [](/\ \A m \in Range(mediaFiles) : m.file_size <= max_file_size
          /\ \A r \in Reqs : req[r].op = "upload_file"
                                => req[r].args.file.size <= max_file_size)
    /\ [][C12_Step]_vars

\* on the object-storage backend an upload of max_file_size + 1 bytes was
\* refused after one of exactly max_file_size bytes was stored
C12_Witness ==
    /\ storage_type = "s3"
    /\ last.op = "upload_file" /\ last.resp.status = 400
    /\ last.args.file.size = max_file_size + 1
    /\ \E m \in Range(mediaFiles) : m.file_size = max_file_size /\ m.file_path \in blobs
    /\ Cardinality(blobs) = 1


C19_Step ==
    \* a record goes only in a step of a delete_file that has made its blob delete
    /\ \A d \in Range(mediaFiles) \ Range(mediaFiles') :
          \E r \in Reqs : /\ Resumes(r)
                          /\ req[r].op = "delete_file" /\ req[r].pc = "blob_deleted"
                          /\ req[r].local.media_file[1].id = d.id
    /\ \A r \in Reqs :
          \* the blob delete is the step from "fetched" to "blob_deleted": it
          \* touches no record and can only take the file's blob away
          /\ (req'[r].pc = "blob_deleted" /\ req[r].pc # "blob_deleted")
                => /\ Resumes(r) /\ req[r].op = "delete_file" /\ req[r].pc = "fetched"
                   /\ mediaFiles' = mediaFiles
                   /\ blobs' \subseteq blobs
                   /\ blobs \ blobs' \subseteq {req[r].local.media_file[1].file_path}
          \* the record delete: carried out and answered 200, or failed and
          \* answered 500 with the record kept; either way no blob comes back
          /\ (Resumes(r) /\ req[r].op = "delete_file" /\ req[r].pc = "blob_deleted")
                => /\ blobs' = blobs
                   /\ \/ /\ last'.resp.status = 200
                         /\ Range(mediaFiles')
                              = {d \in Range(mediaFiles) : d.id # req[r].args.id}
                      \/ /\ last'.resp.status = 500
                         /\ mediaFiles' = mediaFiles

\* C19: delete_file issues the storage delete before the record delete and
\* undoes nothing: a MediaFile record is removed only by a request that has
\* already made its blob delete, and when the record delete fails the record
\* stays and the blob is not restored.
C19_BlobBeforeRecord == [][C19_Step]_vars

\* the record delete failed after the blob delete succeeded: the record is
\* stored, its blob is not
C19_Witness ==
    /\ last.op = "delete_file" /\ last.resp.status = 500
    /\ last.local.media_file # <<>>
    /\ last.local.media_file[1] \in Range(mediaFiles)
    /\ last.local.media_file[1].file_path \notin blobs

\* this step answers an upload_file request
C22_Answered ==
    /\ last'.op = "upload_file"
    /\ \/ AnsweredAtOnce
       \/ \E r \in Reqs : Resumes(r) /\ req[r].op = "upload_file"

\* C22: upload_file answers an unsupported file type with a client error of
\* its own, an oversized file with the client error "File too large", and
\* with the generic failure (500) only when the storage write or the record
\* insert failed.
C22_DistinctUploadErrors ==
    [][C22_Answered
          => LET file == last'.args.file
             IN  /\ C10_Unsupported(file.filename)
                    => /\ last'.resp.status \in 400 .. 499
                       /\ last'.resp.detail # "File too large"
                 /\ (~C10_Unsupported(file.filename) /\ file.size > max_file_size)
                    => last'.resp = Response(400, "File too large", <<>>)
                 /\ last'.resp.status = 500
                    => /\ ~C10_Unsupported(file.filename)
                       /\ file.size <= max_file_size]_vars

\* C23: every MediaFile with a session_id refers to a session that exists and
\* belongs to the user the MediaFile belongs to.
C23_SessionOfSameUser ==
    \A m \in Range(mediaFiles) :
        m.session_id # NoId
          => \E s \in Range(sessions) : s.id = m.session_id /\ s.user_id = m.user_id

\* C24: a get_file or delete_file that passed the ownership check finds the
\* record when it fetches it or answers 404, and a delete_file answers 200
\* only when its own delete removed the record, so that of two concurrent
\* deletes of a file exactly one succeeds.
C24_ConcurrentDeleteSafe ==
    [][\A r \in Reqs :
          /\ (Resumes(r) /\ req[r].op \in {"get_file", "delete_file"}
                /\ req[r].pc = "owned")
               => \/ GetDoc(mediaFiles, req[r].args.id) # <<>>
                  \/ last'.resp.status = 404
          /\ (Resumes(r) /\ req[r].op = "delete_file" /\ req[r].pc = "blob_deleted"
                /\ last'.resp.status = 200)
               => GetDoc(mediaFiles, req[r].args.id) # <<>>]_vars

\* the blob a URL of get_file_url addresses: under /files/ the file the static
\* mount resolves the rest of the URL to, under the bucket's host the key
C25_Addressed(url) ==
    IF url.base = "/files/" THEN MountedPath(url.path) ELSE url.path

\* the path upload_file stores is the path of the blob written
C25_Saved(r) ==
    (Resumes(r) /\ req[r].op = "upload_file" /\ req[r].pc = "saved"
       /\ last'.resp.status = 200)
      => /\ last'.resp.data[1].file_path \in blobs
         /\ \E m \in Range(mediaFiles') :
               /\ m.id = last'.resp.data[1].file_id
               /\ m.file_path = last'.resp.data[1].file_path

\* the storage delete of delete_file removes the blob of the record it
\* fetched, no other
C25_Deleted(r) ==
    (Resumes(r) /\ req[r].op = "delete_file" /\ req[r].pc = "fetched"
       /\ blobs' # blobs)
      => blobs' = blobs \ {req[r].local.media_file[1].file_path}

\* the URL get_file answers addresses the blob of the record
C25_Served(r) ==
    (Resumes(r) /\ req[r].op = "get_file" /\ req[r].pc = "owned"
       /\ last'.resp.status = 200)
      => C25_Addressed(last'.resp.data[1].file_url)
           = GetDoc(mediaFiles, req[r].args.id)[1].file_path

\* C25: on either backend the path save_file returns and upload_file stores is
\* the path the blob was written under, delete_file removes exactly that blob,
\* and the URL of get_file_url addresses exactly that blob through the
\* backend's serving root.
C25_PathRoundTrip ==
    [][\A r \in Reqs : C25_Saved(r) /\ C25_Deleted(r) /\ C25_Served(r)]_vars

----------------------------------------------------------------------------
(* Properties of identity resolution, checked under AuthSpec *)

\* C5: from every store the endpoints can produce, oauth_callback called twice
\* in a row with the same inputs resolves the same user id both times, and the
\* second call returns it and adds no user record.
C5_OauthIdempotent ==
    \A account_id \in AccountIds, email \in Emails, profile \in Profiles,
       inserted1 \in BOOLEAN, inserted2 \in BOOLEAN :
        LET first == oauth_callback_run(users, prefs, nextId, account_id, email,
                                        profile, inserted1)
            second == oauth_callback_run(first.users, first.prefs, nextId + 2,
                                         account_id, email, profile, inserted2)
        IN  /\ ~second.raised
            /\ second.resolved.id = first.resolved.id
            /\ Len(second.users) = Len(first.users)

\* two callbacks with the same inputs were answered, the second with the user
\* the first created, and there is one user
C5_Witness ==
    /\ started = 2
    /\ \A r \in Reqs : req[r].pc = "idle"
    /\ last.op = "oauth_callback" /\ last.resp.status = 200
    /\ Len(users) = 1
    /\ users[1] = NewOAuthUser(users[1].id, last.args.email, last.args.account_id,
                               last.args.profile)
    /\ last.resp.data = <<users[1]>>
    /\ Len(prefs) = 1

\* the email lookup of oauth_callback yields a password-based account, and
\* no user is bound to account_id
C6_Case(account_id, email) ==
    /\ FindUserBy(users, "google_id", account_id) = <<>>
    /\ \E u \in Range(users) : u.email = email
    /\ FindAll(users, {d \in Range(users) : d.email = email})[1].hashed_password # ""

\* C6: oauth_callback with an account id bound to no user and the email of a
\* password-based account links: no user record is added, the user returned
\* is that account, and its google_id is now the account id.
C6_LinksByEmail ==
    \A account_id \in AccountIds, email \in Emails, profile \in Profiles,
       inserted \in BOOLEAN :
        C6_Case(account_id, email)
          => LET account == FindAll(users, {d \in Range(users) : d.email = email})[1]
                 after == oauth_callback_run(users, prefs, nextId, account_id, email,
                                             profile, inserted)
             IN  /\ ~after.raised
                 /\ Len(after.users) = Len(users)
                 /\ after.resolved.id = account.id
                 /\ after.resolved.google_id = account_id
                 /\ \E i \in 1 .. Len(users) :
                       /\ users[i] = account
                       /\ after.users[i].id = account.id
                       /\ after.users[i].google_id = account_id
                       /\ after.users[i].hashed_password = account.hashed_password
                       /\ \A j \in 1 .. Len(users) : j # i => after.users[j] = users[j]

\* a callback linked a registered account: one user, with a password and the
\* account id of the callback
C6_Witness ==
    /\ last.op = "oauth_callback" /\ last.resp.status = 200
    /\ Len(users) = 1
    /\ users[1].hashed_password # ""
    /\ users[1].google_id = last.args.account_id
    /\ users[1].email = last.args.email
    /\ last.resp.data = <<users[1]>>

\* the normal form of an address: lowercased (validated addresses carry no
\* surrounding blanks)
NormalizedEmail(email) == [i \in 1 .. Len(email) |-> Lower(email[i])]

C7_Taken(email) ==
    \E u \in Range(users) : NormalizedEmail(u.email) = NormalizedEmail(email)

\* C7: a register request whose email normalizes to the email of an existing
\* user is answered DuplicateIdentity (400) and creates no user record.
C7_DuplicateRejected ==
    [][/\ \A r \in Reqs :
            (TakenUp(r) /\ req'[r].op = "register") => ~C7_Taken(req'[r].args.email)
       /\ (AnsweredAtOnce /\ last'.op = "register" /\ C7_Taken(last'.args.email))
            => (last'.resp.status = 400 /\ users' = users)]_vars

C16_IdentityUnique ==
    \A i, j \in 1 .. Len(users) :
        i # j => /\ NormalizedEmail(users[i].email) # NormalizedEmail(users[j].email)
                 /\ users[i].google_id # "" => users[i].google_id # users[j].google_id

\* C18: every user record has a non-empty hashed_password or a google_id,
\* in the collection and in the documents requests are about to save.
C18_PasswordOrOAuth ==
    /\ \A u \in Range(users) : u.hashed_password # "" \/ u.google_id # ""
    /\ \A r \in Reqs :
          req[r].pc \in {"linking", "saving"}
            => req[r].local.user.hashed_password # "" \/ req[r].local.user.google_id # ""

\* the profile of an account that has no password was updated, and it still
\* has its google_id
C18_Witness ==
    /\ last.op = "update_current_user" /\ last.resp.status = 200
    /\ \E u \in Range(users) :
          /\ u.id = last.resp.data[1].id
          /\ u.hashed_password = "" /\ u.google_id # ""
          /\ u.full_name = "n3"

\* C20: no step of an oauth_callback changes a google_id that is set, and a
\* callback whose account id is some user's google_id returns that user and
\* changes no user record.
C20_LinkOnlyUnbound ==
    [][/\ \A r \in Reqs :
             (Resumes(r) /\ req[r].op = "oauth_callback")
               => \A d \in Range(users) :
                     d.google_id # ""
                       => \E e \in Range(users') : e.id = d.id /\ e.google_id = d.google_id
       /\ (AnsweredAtOnce /\ last'.op = "oauth_callback")
             => /\ users' = users
                /\ last'.resp.data[1] \in Range(users)
                /\ last'.resp.data[1].google_id = last'.args.account_id]_vars

\* C21: the record the link path of oauth_callback saves and returns has the
\* account id as its google_id, the name and the picture of the profile, and
\* is_verified set.
C21_LinkMarksVerified ==
    [][\A r \in Reqs :
          (Resumes(r) /\ req[r].op = "oauth_callback" /\ req[r].pc = "linking")
            => \E u \in Range(users') :
                  /\ last'.resp.data = <<u>>
                  /\ u.id = req[r].local.user.id
                  /\ u.google_id = req[r].args.account_id
                  /\ u.full_name = req[r].args.profile.name
                  /\ u.avatar_url = req[r].args.profile.picture
                  /\ u.is_verified]_vars

----------------------------------------------------------------------------
(* Properties of the bearer tokens, checked under TokenSpec *)

C8_State ==
    last.op = "get_current_user"
      => LET token == last.args.token
             at == last.args.at
         IN  /\ (token \in tokens /\ at < token.exp)
                   => /\ last.resp.status = 200
                      /\ last.resp.data = <<[id |-> token.sub]>>
             /\ (token \in tokens /\ at > token.exp) => last.resp.status = 401
             /\ last.resp.status = 200
                   => /\ token \in tokens
                      /\ last.resp.data = <<[id |-> token.sub]>>
                      /\ last.user = token.sub

C8_Step ==
    (last'.op = "login" /\ started' # started)
      => /\ last'.resp.data[1].sub = last'.args.user
         /\ last'.resp.data[1].exp = last'.args.at + 3600
         /\ last'.resp.data[1] \in tokens'

C8_WitnessBefore ==
    /\ last.op = "get_current_user" /\ last.resp.status = 200
    /\ last.args.token \in tokens
    /\ last.args.at = last.args.token.exp - 1

----------------------------------------------------------------------------
(* Properties of the preferences, checked under PrefsSpec *)

PreferencesOf(u) == {i \in 1 .. Len(prefs) : prefs[i].user_id = u}

\* C9: under every interleaving of get_user_preferences,
\* update_user_preferences and create_user_preferences there is at most one
\* Preferences record per user_id; two concurrent get_user_preferences of a
\* fresh user leave exactly one.
C9_OnePreferencesPerUser ==
    \A u \in Principals : Cardinality(PreferencesOf(u)) <= 1

\* the preference settings of a Preferences record
C14_Settable == {"preferred_duration", "difficulty_level"}

\* the record a merge of data into base gives
C14_Merged(base, data, result) ==
    /\ DOMAIN result = DOMAIN base
    /\ result.id = base.id /\ result.user_id = base.user_id
    /\ \A k \in C14_Settable :
          result[k] = IF k \in DOMAIN data THEN data[k] ELSE base[k]

C14_State ==
    \A u \in Principals, data \in PreferenceUpdates :
        DOMAIN data \cap {"id", "user_id"} = {}
          => LET found == {i \in 1 .. Len(prefs) : prefs[i].user_id = u}
                 first == CHOOSE i \in found : \A j \in found : i <= j
                 run == update_user_preferences_run(prefs, nextId, u, data)
             IN  /\ ~run.raised
                 /\ Len(run.result) = 1
                 /\ IF found = {}
                    THEN /\ C14_Merged([id |-> nextId, user_id |-> u,
                                        preferred_duration |-> 30,
                                        difficulty_level |-> "medium"],
                                       data, run.result[1])
                         /\ run.prefs = Append(prefs, run.result[1])
                    ELSE /\ C14_Merged(prefs[first], data, run.result[1])
                         /\ run.prefs = [prefs EXCEPT ![first] = run.result[1]]

C14_Step ==
    \A r \in Reqs :
        /\ (TakenUp(r) /\ req'[r].op = "update_user_preferences" /\ req'[r].pc = "saving")
              => <<req'[r].local.preferences>>
                   = update_user_preferences_run(prefs, nextId, req'[r].user,
                                                 req'[r].args.preferences_data).result
        /\ (Resumes(r) /\ req[r].op = "update_user_preferences")
              => /\ last'.resp.status = 200
                 /\ last'.resp.data[1] \in Range(prefs')
                 /\ IF req[r].pc = "saving"
                    THEN prefs' = SaveDoc(prefs, req[r].local.preferences)
                    ELSE /\ prefs' = Append(prefs, last'.resp.data[1])
                         /\ C14_Merged([id |-> nextId, user_id |-> req[r].user,
                                        preferred_duration |-> 30,
                                        difficulty_level |-> "medium"],
                                       req[r].args.preferences_data, last'.resp.data[1])

C17_UserIdImmutable ==
    [][/\ \A d \in Range(prefs) :
             \E e \in Range(prefs') : e.id = d.id /\ e.user_id = d.user_id
       /\ \A d \in Range(sessions) :
             \A e \in Range(sessions') : e.id = d.id => e.user_id = d.user_id
       /\ \A d \in Range(mediaFiles) :
             \A e \in Range(mediaFiles') : e.id = d.id => e.user_id = d.user_id]_vars

----------------------------------------------------------------------------
(* Properties of the session list, checked under SessionSpec *)

\* C15: get_user_sessions(owner) returns exactly the sessions of owner, each
\* once, newest first: no element is older than the one before it.
C15_SessionsNewestFirst ==
    last.op = "get_user_sessions"
      => LET result == last.resp.data
         IN  /\ \A i \in 1 .. Len(result) : result[i].user_id = last.user
             /\ \A i, j \in 1 .. Len(result) : result[i].id = result[j].id => i = j
             /\ \A d \in Range(sessions) : d.user_id = last.user => d \in Range(result)
             /\ \A i \in 1 .. Len(result) - 1 :
                   result[i].created_at >= result[i + 1].created_at

----------------------------------------------------------------------------
(* Properties of the wire surface, checked under WireSpec *)

\* the operations open to callers without a token
PublicOps == {"register", "login", "oauth_callback", "health"}

\* at this moment user u holds a token that validates
HoldsValidToken(u, t) ==
    \E k \in tokens : k.sig = "SECRET" /\ k.sub = u /\ t < k.exp

\* the request this step receives
C13_Received == IF AnsweredAtOnce THEN last' ELSE req'[CHOOSE r \in Reqs : TakenUp(r)]

\* C13: a request to an operation other than register, login, the OAuth
\* callback and the health check is either served for a principal who holds a
\* token that validates at that moment, or is answered 401 with nothing
\* returned and nothing changed; this includes the requests for stored blobs
\* that the static mount answers.
C13_BearerRequired ==
    [][(started' # started /\ C13_Received.op \notin PublicOps)
          => \/ /\ C13_Received.user # NoId
                /\ HoldsValidToken(C13_Received.user, now')
             \/ /\ AnsweredAtOnce
                /\ last'.resp = Response(401, "Unauthorized", <<>>)
                /\ UNCHANGED <<users, prefs, sessions, mediaFiles, blobs, nextId>>]_vars

====
